---- MODULE Spec2Model ----
(***************************************************************************)
(* A model of the ESPU Bezier curve engine: Point arithmetic, the Linear,  *)
(* Quadratic and Cubic curves (resolve, bounding_box, bake,                *)
(* resolve_uniform) and the helpers quadratic_roots, lerp, build_arc_table *)
(* and t_at_arc_length.                                                    *)
(*                                                                         *)
(* Numbers.  A float is modelled as a small binary floating-point number:  *)
(* the integer n stands for n / F, and a number is representable when n    *)
(* has at most SigBits significant bits (numbers below 2^SigBits / F lie   *)
(* on the grid of spacing 1 / F, as subnormals do).  Every sum,            *)
(* difference, product, quotient and square root is rounded once to the    *)
(* nearest representable number, ties to even, in the order in which the   *)
(* source evaluates the expression.                                        *)
(***************************************************************************)
EXTENDS Integers, Sequences, FiniteSets, TLC

\* ------------------------------------------------------------ bounds
FracBits == 8          \* n stands for n / 2^FracBits
SigBits == 8           \* significant bits of a representable number
NumPoints == 3         \* baked curves draw control points from Palette[1..NumPoints]
NumEvalPoints == 5     \* evaluated curves draw them from Palette[1..NumEvalPoints]
MaxSteps == 3          \* bake(steps) is called with steps in 0..MaxSteps
ParamDen == 4          \* t and u are drawn in steps of 1 / ParamDen
ProbeDen == 16         \* bounding boxes are probed at t = k / ProbeDen
MaxCoef == 3           \* quadratic_roots coefficients are in -MaxCoef..MaxCoef
NumCurvPoints == 3     \* curvature is taken on curves over CurvPalette[1..NumCurvPoints]
MaxRegistrations == 2  \* on() and once() are called at most this often
MaxDepth == 4          \* emit, handler and scope frames in progress at once
MaxCalls == 2          \* no emit starts once a registered fn ran this often
MaxScopes == 2         \* with blocks of the dispatcher nest at most this deep
MaxLines == 4          \* FileLogger.emit is called at most this often
MaxBufferSize == 3     \* the buffer_size argument is in -1 .. MaxBufferSize
MaxAttached == 3       \* Logger._handlers holds at most this many entries

\* ------------------------------------------------------------ program constants
EpsInv == 1000000000   \* 1 / 1e-9, the tolerance of the degeneracy tests

\* ------------------------------------------------------------ float arithmetic
F == 2^FracBits
MantLimit == 2^SigBits

Abs(n) == IF n < 0 THEN -n ELSE n
Min2(a, b) == IF a <= b THEN a ELSE b
Max2(a, b) == IF a >= b THEN a ELSE b

RECURSIVE QuantumOf(_, _, _)
\* the spacing of the representable numbers around n / d (n >= 0, d > 0):
\* the least power of two q >= 1 with n / d < 2^SigBits * q
QuantumOf(n, d, q) ==
    IF n \div d < MantLimit * q THEN q ELSE QuantumOf(n, d, 2 * q)

\* n / d rounded to the nearest integer, ties to even (n >= 0, d > 0)
RoundHalfEven(n, d) ==
    LET k == n \div d
        r == n % d
    IN  IF 2 * r < d THEN k
        ELSE IF 2 * r > d THEN k + 1
        ELSE IF k % 2 = 0 THEN k ELSE k + 1

\* the representable number nearest to n / d (d # 0)
RoundQ(n, d) ==
    LET an == Abs(n)
        ad == Abs(d)
        q == QuantumOf(an, ad, 1)
        m == q * RoundHalfEven(an, ad * q)
    IN  IF (n < 0) = (d < 0) THEN m ELSE -m

\* the float of the integer n, exact for |n| < 2^SigBits
FromInt(n) == n * F

FAdd(a, b) == RoundQ(a + b, 1)
FSub(a, b) == RoundQ(a - b, 1)
FMul(a, b) == RoundQ(a * b, F)
FDiv(a, b) == RoundQ(a * F, b)
FNeg(a) == -a

\* the spacing of the representable numbers around x
Ulp(x) == QuantumOf(Abs(x), 1, 1)

\* abs(x) < 1e-9:  |x| / F < 1 / EpsInv
BelowEps(x) == Abs(x) <= (F - 1) \div EpsInv

RECURSIVE ISqrtLoop(_, _, _)
\* the largest r in lo..hi-1 with r * r <= n, given lo * lo <= n < hi * hi
ISqrtLoop(n, lo, hi) ==
    IF lo + 1 >= hi THEN lo
    ELSE LET mid == (lo + hi) \div 2
         IN  IF mid * mid <= n THEN ISqrtLoop(n, mid, hi)
                               ELSE ISqrtLoop(n, lo, mid)

\* the representable number nearest to the square root of n (n >= 0)
RoundSqrt(n) ==
    LET r == ISqrtLoop(n, 0, Min2(n + 1, 46341))
        twice == IF n > r * r + r THEN 2 * r + 1 ELSE 2 * r
        q == QuantumOf(r, 1, 1)
    IN  q * ((twice + q) \div (2 * q))

\* math.sqrt
FSqrt(a) == RoundSqrt(a * F)

\* ------------------------------------------------------------ Point (base.py)
Point(x, y) == [x |-> x, y |-> y]
PointAdd(p, q) == Point(FAdd(p.x, q.x), FAdd(p.y, q.y))
PointSub(p, q) == Point(FSub(p.x, q.x), FSub(p.y, q.y))
PointMul(p, scalar) == Point(FMul(p.x, scalar), FMul(p.y, scalar))
\* math.hypot(x, y)
PointLength(p) == RoundSqrt(p.x * p.x + p.y * p.y)

\* ------------------------------------------------------------ helpers (utils.py)
\* a variant that interpolates from b towards a
lerp_Reversed(a, b, t) == PointAdd(b, PointMul(PointSub(a, b), t))

lerp(a, b, t) == PointAdd(a, PointMul(PointSub(b, a), t))

\* ------------------------------------------------------------ curves (curve.py)
LinearBezierCurve(P1, P2) == [kind |-> "Linear", P1 |-> P1, P2 |-> P2]
QuadraticBezierCurve(P1, P2, P3) ==
    [kind |-> "Quadratic", P1 |-> P1, P2 |-> P2, P3 |-> P3]
CubicBezierCurve(P1, P2, P3, P4) ==
    [kind |-> "Cubic", P1 |-> P1, P2 |-> P2, P3 |-> P3, P4 |-> P4]

LinearResolve(self, t) == lerp(self.P1, self.P2, t)

QuadraticResolve(self, t) ==
    LET u == FSub(FromInt(1), t)
    IN  PointAdd(PointAdd(PointMul(self.P1, FMul(u, u)),
                          PointMul(self.P2, FMul(FMul(FromInt(2), u), t))),
                 PointMul(self.P3, FMul(t, t)))

CubicResolve(self, t) ==
    LET u == FSub(FromInt(1), t)
    IN  PointAdd(PointAdd(PointAdd(
            PointMul(self.P1, FMul(FMul(u, u), u)),
            PointMul(self.P2, FMul(FMul(FMul(FromInt(3), u), u), t))),
            PointMul(self.P3, FMul(FMul(FMul(FromInt(3), u), t), t))),
            PointMul(self.P4, FMul(FMul(t, t), t)))

\* obj.resolve(t), dispatched on the class of obj
Resolve(obj, t) ==
    CASE obj.kind = "Linear" -> LinearResolve(obj, t)
      [] obj.kind = "Quadratic" -> QuadraticResolve(obj, t)
      [] obj.kind = "Cubic" -> CubicResolve(obj, t)

\* QuadraticBezierCurve.derivative()
QuadraticDerivative(self) ==
    LinearBezierCurve(PointMul(PointSub(self.P2, self.P1), FromInt(2)),
                      PointMul(PointSub(self.P3, self.P2), FromInt(2)))

\* a variant with the factor of the quadratic derivative
CubicDerivative_Factor2(self) ==
    QuadraticBezierCurve(PointMul(PointSub(self.P2, self.P1), FromInt(2)),
                         PointMul(PointSub(self.P3, self.P2), FromInt(2)),
                         PointMul(PointSub(self.P4, self.P3), FromInt(2)))

\* CubicBezierCurve.derivative()
CubicDerivative(self) ==
    QuadraticBezierCurve(PointMul(PointSub(self.P2, self.P1), FromInt(3)),
                         PointMul(PointSub(self.P3, self.P2), FromInt(3)),
                         PointMul(PointSub(self.P4, self.P3), FromInt(3)))

\* ------------------------------------------------------------ root solver (utils.py)
\* the list of real roots of a t^2 + b t + c, as a sequence
quadratic_roots(a, b, c) ==
    IF BelowEps(a)
    THEN IF BelowEps(b) THEN << >> ELSE << FDiv(FNeg(c), b) >>
    ELSE LET disc == FSub(FMul(b, b), FMul(FMul(FromInt(4), a), c))
         IN  IF disc < 0 THEN << >>
             ELSE LET s == FSqrt(disc)
                      twice_a == FMul(FromInt(2), a)
                  IN  << FDiv(FAdd(FNeg(b), s), twice_a),
                         FDiv(FSub(FNeg(b), s), twice_a) >>

\* ------------------------------------------------------------ bounding boxes
SeqMin(q) == CHOOSE m \in {q[i] : i \in DOMAIN q} : \A i \in DOMAIN q : m <= q[i]
SeqMax(q) == CHOOSE m \in {q[i] : i \in DOMAIN q} : \A i \in DOMAIN q : m >= q[i]

\* min(xs), min(ys), max(xs), max(ys) of a list of points
BoxOf(points) ==
    LET xs == [i \in DOMAIN points |-> points[i].x]
        ys == [i \in DOMAIN points |-> points[i].y]
    IN  << SeqMin(xs), SeqMin(ys), SeqMax(xs), SeqMax(ys) >>

\* the roots t with 0.0 < t < 1.0, in order
Interior(roots) == SelectSeq(roots, LAMBDA t : 0 < t /\ t < FromInt(1))

LinearBoundingBox(self) == BoxOf(<< self.P1, self.P2 >>)

\* axis_root of QuadraticBezierCurve.bounding_box: << >> stands for None
axis_root(a, b) ==
    LET denom == FSub(a, b)
    IN  IF BelowEps(denom) THEN << >>
        ELSE LET t == FDiv(a, denom)
             IN  IF 0 < t /\ t < FromInt(1) THEN << t >> ELSE << >>

\* the candidate points of QuadraticBezierCurve.bounding_box
QuadraticCandidates(self) ==
    LET d == QuadraticDerivative(self)
        tx == axis_root(d.P1.x, d.P2.x)
        ty == axis_root(d.P1.y, d.P2.y)
        ts == tx \o ty
    IN  << QuadraticResolve(self, 0), QuadraticResolve(self, FromInt(1)) >>
        \o [i \in DOMAIN ts |-> QuadraticResolve(self, ts[i])]

QuadraticBoundingBox(self) == BoxOf(QuadraticCandidates(self))

\* the candidate points of CubicBezierCurve.bounding_box
CubicCandidates(self) ==
    LET d == CubicDerivative(self)
        a == PointAdd(PointSub(d.P1, PointMul(d.P2, FromInt(2))), d.P3)
        b == PointMul(PointSub(d.P2, d.P1), FromInt(2))
        c == d.P1
        ts == Interior(quadratic_roots(a.x, b.x, c.x))
              \o Interior(quadratic_roots(a.y, b.y, c.y))
    IN  << CubicResolve(self, 0), CubicResolve(self, FromInt(1)) >>
        \o [i \in DOMAIN ts |-> CubicResolve(self, ts[i])]

CubicBoundingBox(self) == BoxOf(CubicCandidates(self))

\* obj.bounding_box(), dispatched on the class of obj
bounding_box(obj) ==
    CASE obj.kind = "Linear" -> LinearBoundingBox(obj)
      [] obj.kind = "Quadratic" -> QuadraticBoundingBox(obj)
      [] obj.kind = "Cubic" -> CubicBoundingBox(obj)

\* ------------------------------------------------------------ curvature
\* obj.derivative(), dispatched on the class of obj; a Point for a Linear
LinearDerivative(self) == PointSub(self.P2, self.P1)
derivative(obj) ==
    CASE obj.kind = "Linear" -> LinearDerivative(obj)
      [] obj.kind = "Quadratic" -> QuadraticDerivative(obj)
      [] obj.kind = "Cubic" -> CubicDerivative(obj)

\* det(a, b) = a.x * b.y - a.y * b.x
det(a, b) == FSub(FMul(a.x, b.y), FMul(a.y, b.x))

\* speed ** 3, rounded once
Pow3(speed) == RoundQ(speed * speed * speed, F * F)

\* curvature_from_derivatives(v, a): [status, value]; the division raises
\* ZeroDivisionError when speed ** 3 is 0.0
curvature_from_derivatives(v, a) ==
    LET speed == PointLength(v)
    IN  IF speed = 0 THEN [status |-> "ok", value |-> 0]
        ELSE IF Pow3(speed) = 0
             THEN [status |-> "ZeroDivisionError", value |-> 0]
             ELSE [status |-> "ok", value |-> FDiv(det(v, a), Pow3(speed))]

\* QuadraticBezierCurve.curvature(t, d1, d2): d1 a Linear, d2 a Point
QuadraticCurvature(self, t, d1, d2) ==
    curvature_from_derivatives(LinearResolve(d1, t), d2)
\* CubicBezierCurve.curvature(t, d1, d2): d1 a Quadratic, d2 a Linear
CubicCurvature(self, t, d1, d2) ==
    curvature_from_derivatives(QuadraticResolve(d1, t), LinearResolve(d2, t))

\* obj.curvature(t, obj.derivative(), obj.derivative().derivative());
\* LinearBezierCurve defines no curvature
curvature(obj, t) ==
    CASE obj.kind = "Linear" -> [status |-> "AttributeError", value |-> 0]
      [] obj.kind = "Quadratic" ->
             QuadraticCurvature(obj, t, derivative(obj), derivative(derivative(obj)))
      [] obj.kind = "Cubic" ->
             CubicCurvature(obj, t, derivative(obj), derivative(derivative(obj)))

\* ------------------------------------------------------------ arc table (utils.py)
RECURSIVE ArcLoopNoAccumulate(_, _, _, _, _, _)
\* ArcLoop with  length = ...  in place of  length += ...
ArcLoopNoAccumulate(obj, steps, i, prev_point, length, table) ==
    IF i > steps THEN table
    ELSE LET t == FDiv(FromInt(i), FromInt(steps))
             point == Resolve(obj, t)
             length2 == PointLength(PointSub(point, prev_point))
         IN  ArcLoopNoAccumulate(obj, steps, i + 1, point, length2,
                                 Append(table, << t, length2 >>))

RECURSIVE ArcLoopStalePrev(_, _, _, _, _, _)
\* ArcLoop without  prev_point = point
ArcLoopStalePrev(obj, steps, i, prev_point, length, table) ==
    IF i > steps THEN table
    ELSE LET t == FDiv(FromInt(i), FromInt(steps))
             point == Resolve(obj, t)
             length2 == FAdd(length, PointLength(PointSub(point, prev_point)))
         IN  ArcLoopStalePrev(obj, steps, i + 1, prev_point, length2,
                              Append(table, << t, length2 >>))

RECURSIVE ArcLoop(_, _, _, _, _, _)
\* the loop  for i in range(1, steps + 1)  of build_arc_table, from index i on
ArcLoop(obj, steps, i, prev_point, length, table) ==
    IF i > steps THEN table
    ELSE LET t == FDiv(FromInt(i), FromInt(steps))
             point == Resolve(obj, t)
             length2 == FAdd(length, PointLength(PointSub(point, prev_point)))
         IN  ArcLoop(obj, steps, i + 1, point, length2,
                     Append(table, << t, length2 >>))

\* a sequence of pairs << t, cumulative_length >>
build_arc_table(obj, steps) ==
    ArcLoop(obj, steps, 1, Resolve(obj, 0), 0, << << 0, 0 >> >>)

\* an iteration that leaves mid out of the lower half: hi = mid - 1
BisectStep_Exclusive(table, s, lo, hi) ==
    LET mid == (lo + hi) \div 2
    IN  IF table[mid][2] < s THEN << mid, hi >> ELSE << lo, mid - 1 >>

\* an iteration that moves lo up when table[mid][1] <= s
BisectStep_LessEqual(table, s, lo, hi) ==
    LET mid == (lo + hi) \div 2
    IN  IF table[mid][2] <= s THEN << mid, hi >> ELSE << lo, mid >>

\* one iteration of the loop  while lo + 1 < hi  of t_at_arc_length
BisectStep(table, s, lo, hi) ==
    LET mid == (lo + hi) \div 2
    IN  IF table[mid][2] < s THEN << mid, hi >> ELSE << lo, mid >>

RECURSIVE Bisect(_, _, _, _)
\* the values of << lo, hi >> when the loop ends
Bisect(table, s, lo, hi) ==
    IF lo + 1 < hi
    THEN LET n == BisectStep(table, s, lo, hi)
         IN  Bisect(table, s, n[1], n[2])
    ELSE << lo, hi >>

\* the last statements of t_at_arc_length, on the lo and hi the loop left
Interpolate(table, s, lo, hi) ==
    LET t0 == table[lo][1]
        s0 == table[lo][2]
        t1 == table[hi][1]
        s1 == table[hi][2]
    IN  IF FSub(s1, s0) = 0
        THEN [status |-> "ZeroDivisionError", t |-> 0]
        ELSE [status |-> "ok",
              t |-> FAdd(t0, FDiv(FMul(FSub(s, s0), FSub(t1, t0)),
                                FSub(s1, s0)))]

\* t_at_arc_length with  s < 0.0  and  s > obj._arc_length  as its tests
t_at_arc_length_Strict(table, arc_len, s) ==
    IF s < 0 THEN [status |-> "ok", t |-> 0]
    ELSE IF s > arc_len THEN [status |-> "ok", t |-> FromInt(1)]
    ELSE LET b == Bisect(table, s, 1, Len(table))
             t0 == table[b[1]][1]
             s0 == table[b[1]][2]
             t1 == table[b[2]][1]
             s1 == table[b[2]][2]
         IN  IF FSub(s1, s0) = 0
             THEN [status |-> "ZeroDivisionError", t |-> 0]
             ELSE [status |-> "ok",
                   t |-> FAdd(t0, FDiv(FMul(FSub(s, s0), FSub(t1, t0)),
                                     FSub(s1, s0)))]

\* t_at_arc_length that interpolates with s1 for the length of the segment
t_at_arc_length_NoOffset(table, arc_len, s) ==
    IF s <= 0 THEN [status |-> "ok", t |-> 0]
    ELSE IF s >= arc_len THEN [status |-> "ok", t |-> FromInt(1)]
    ELSE LET b == Bisect(table, s, 1, Len(table))
             t0 == table[b[1]][1]
             s0 == table[b[1]][2]
             t1 == table[b[2]][1]
             s1 == table[b[2]][2]
         IN  IF s1 = 0
             THEN [status |-> "ZeroDivisionError", t |-> 0]
             ELSE [status |-> "ok",
                   t |-> FAdd(t0, FDiv(FMul(FSub(s, s0), FSub(t1, t0)), s1))]

\* t_at_arc_length(obj, s) on obj._arc_table = table, obj._arc_length =
\* arc_len.  The table is indexed from 1 here, from 0 in the source.  The
\* result is [status, t]: status is "ok", or the exception of the division.
t_at_arc_length(table, arc_len, s) ==
    IF s <= 0 THEN [status |-> "ok", t |-> 0]
    ELSE IF s >= arc_len THEN [status |-> "ok", t |-> FromInt(1)]
    ELSE LET b == Bisect(table, s, 1, Len(table))
             t0 == table[b[1]][1]
             s0 == table[b[1]][2]
             t1 == table[b[2]][1]
             s1 == table[b[2]][2]
         IN  IF FSub(s1, s0) = 0
             THEN [status |-> "ZeroDivisionError", t |-> 0]
             ELSE [status |-> "ok",
                   t |-> FAdd(t0, FDiv(FMul(FSub(s, s0), FSub(t1, t0)),
                                     FSub(s1, s0)))]


\* ------------------------------------------------------------ inputs
\* the control points the curves are built from; the fifth is the largest
\* number below 2, which makes nearly symmetric curves
Palette ==
    << Point(0, 0), Point(FromInt(1), FromInt(1)), Point(FromInt(2), 0),
       Point(FDiv(FromInt(1), FromInt(3)), FromInt(-1)),
       Point(FromInt(2) - QuantumOf(F, 1, 1), FromInt(1)),
       Point(FromInt(-1), FromInt(2)) >>
PointsUpTo(n) == {Palette[i] : i \in 1..Min2(n, Len(Palette))}

\* the values of t and of u: 0 .. 1 in steps of 1 / ParamDen, and one value
\* on each side of [0, 1]
Params == {FDiv(FromInt(k), FromInt(ParamDen)) : k \in 0..ParamDen}
          \cup {FDiv(FromInt(-1), FromInt(2)), FDiv(FromInt(3), FromInt(2))}

\* the values of t in [0, 1]
UnitParams == {p \in Params : 0 <= p /\ p <= FromInt(1)}

StepsArgs == 0..MaxSteps

LinearCurves(S) == {LinearBezierCurve(p[1], p[2]) : p \in S \X S}
QuadraticCurves(S) ==
    {QuadraticBezierCurve(p[1], p[2], p[3]) : p \in S \X S \X S}
CubicCurves(S) ==
    {CubicBezierCurve(p[1], p[2], p[3], p[4]) : p \in S \X S \X S \X S}

\* the curves that are baked and resolved uniformly
BakedCurves ==
    QuadraticCurves(PointsUpTo(NumPoints)) \cup CubicCurves(PointsUpTo(NumPoints))
\* the curves that are evaluated
EvalCurves ==
    LinearCurves(PointsUpTo(NumEvalPoints))
    \cup QuadraticCurves(PointsUpTo(NumEvalPoints))
    \cup CubicCurves(PointsUpTo(NumEvalPoints))

\* the control points of the curves whose derivative and curvature are
\* taken: the second is the smallest positive number away from the first
CurvPalette ==
    << Point(0, 0), Point(1, 0), Point(0, F \div 2),
       Point(F \div 2, F \div 2), Point(F \div 2, 0) >>
CurvPoints == {CurvPalette[i] : i \in 1..Min2(NumCurvPoints, Len(CurvPalette))}
CurvCurves ==
    LinearCurves(CurvPoints \cup {Point(FromInt(4), 0)})
    \cup QuadraticCurves(CurvPoints) \cup CubicCurves(CurvPoints)

\* ------------------------------------------------------------ state
VARIABLES
    curve,        \* the curve object: its class and its control points
    has_baked,    \* whether the object has an attribute _baked
    baked,        \* self._baked (meaningful when has_baked)
    arc_table,    \* self._arc_table (<< >> while the attribute does not exist)
    arc_length,   \* self._arc_length (0 while the attribute does not exist)
    pc,           \* "idle", the statement of bake that runs next, or "bisect"
                  \* at the head of the loop of t_at_arc_length
    steps,        \* the argument of the bake call in progress or last made
    result,       \* the last call: its arguments and what it returned or raised,
                  \* and lo and hi of t_at_arc_length (the source's lo + 1, hi + 1)
    reader,       \* a resolve_uniform call of a second thread: the statement
                  \* it runs next and the values it has read so far
    handlers,     \* Events._handlers: event name -> the list of registered callables
    stack,        \* the calls of the dispatcher in progress, innermost last
    raising,      \* an exception is on its way up the stack
    calls,        \* per on() and once() call made so far, in order: how often
                  \* the wrapper that once() built has invoked its fn
    buffer_size,  \* FileLogger.buffer_size
    buffer,       \* FileLogger.buffer: the lines not yet written
    closed,       \* FileLogger.closed
    file,         \* the text written to FileLogger.file, one token per line or newline
    file_closed,  \* self.file.close() was called
    accepted,     \* the lines that emit appended to the buffer, in order
    last_call,    \* the last FileLogger method called
    logger_level, \* Logger.level
    logger_handlers, \* Logger._handlers
    handler_level,\* the level of every handler object
    delivered,    \* per handler: the emit calls made by the _log call, if the
                  \* last call on the Logger was one
    last_log      \* the level of that _log call, 0 if the last call was another

bezier_vars ==
    << curve, has_baked, baked, arc_table, arc_length, pc, steps, result,
       reader >>
events_vars == << handlers, stack, raising, calls >>
file_vars ==
    << buffer_size, buffer, closed, file, file_closed, accepted, last_call >>
logger_vars ==
    << logger_level, logger_handlers, handler_level, delivered, last_log >>
vars == << bezier_vars, events_vars, file_vars, logger_vars >>

NoPoint == Point(0, 0)

\* the event names and the functions that callers register
EventNames == {"open"}
Fns == {"f"}

\* Events.__init__: self._handlers = {}; a name that is not a key of the dict
\* is a name with the empty list (on() creates the list, off() and the once
\* wrapper pop a list that became empty)
NoHandlers == [n \in EventNames |-> << >>]
EventsIdle ==
    /\ handlers = NoHandlers
    /\ stack = << >>
    /\ raising = FALSE
    /\ calls = << >>

\* config.py
DEBUG == 10
INFO == 20
WARNING == 30
ERROR == 40
CRITICAL == 50
Levels == {DEBUG, INFO, WARNING, ERROR, CRITICAL}

\* the handler objects that callers attach to a Logger
Handlers == {"h1", "h2"}

\* an __init__ that stores buffer_size as it is given
FileLoggerInit_AsGiven(size) ==
    /\ buffer_size = size
    /\ buffer = << >>
    /\ closed = FALSE
    /\ file = << >>
    /\ file_closed = FALSE
    /\ accepted = << >>
    /\ last_call = "none"

\* FileLogger.__init__: buffer_size is at least 1, the buffer is empty, the
\* file is open and, with mode "w", empty
FileLoggerInit(size) ==
    /\ buffer_size = IF size <= 1 THEN 1 ELSE size
    /\ buffer = << >>
    /\ closed = FALSE
    /\ file = << >>
    /\ file_closed = FALSE
    /\ accepted = << >>
    /\ last_call = "none"

\* Logger.__init__(level) and the handlers' __init__(level=...)
LoggerInit(level, levels) ==
    /\ logger_level = level
    /\ logger_handlers = << >>
    /\ handler_level = levels
    /\ delivered = [h \in Handlers |-> 0]
    /\ last_log = 0

\* the defaults: buffer_size = 5 and level = INFO
DefaultBufferSize == 5
LoggingIdle ==
    /\ FileLoggerInit(DefaultBufferSize)
    /\ LoggerInit(INFO, [h \in Handlers |-> INFO])
\* The record of a call.  before is the steps argument of the bake that made
\* the table the call found (0: the curve had never been baked).  value is
\* what curvature() returned, deriv what derivative() returned.
Returned(op, arg, point, t, box, roots) ==
    [op |-> op, arg |-> arg, before |-> steps, status |-> "ok", point |-> point,
     t |-> t, box |-> box, roots |-> roots, value |-> 0,
     deriv |-> NoPoint, lo |-> 0, hi |-> 0]
Raised(op, arg, error) ==
    [op |-> op, arg |-> arg, before |-> steps, status |-> error,
     point |-> NoPoint, t |-> 0, box |-> << >>, roots |-> << >>,
     value |-> 0, deriv |-> NoPoint, lo |-> 0, hi |-> 0]
Running(op, arg) ==
    [op |-> op, arg |-> arg, before |-> steps, status |-> "running",
     point |-> NoPoint, t |-> 0, box |-> << >>, roots |-> << >>,
     value |-> 0, deriv |-> NoPoint, lo |-> 0, hi |-> 0]
NoResult ==
    [op |-> "none", arg |-> << >>, before |-> 0, status |-> "ok",
     point |-> NoPoint, t |-> 0, box |-> << >>, roots |-> << >>,
     value |-> 0, deriv |-> NoPoint, lo |-> 0, hi |-> 0]

\* no call of the second thread has started
NoReader ==
    [pc |-> "idle", u |-> 0, s |-> 0, length |-> 0, table |-> << >>,
     lo |-> 0, hi |-> 0, status |-> "ok", t |-> 0, point |-> NoPoint,
     undisturbed |-> TRUE, seen |-> << >>]

\* a curve that nobody touches
BezierIdle ==
    /\ curve = LinearBezierCurve(NoPoint, NoPoint)
    /\ has_baked = FALSE
    /\ baked = FALSE
    /\ arc_table = << >>
    /\ arc_length = 0
    /\ pc = "idle"
    /\ steps = 0
    /\ result = NoResult
    /\ reader = NoReader

\* __init__: only CubicBezierCurve.__init__ sets self._baked = False;
\* QuadraticBezierCurve.__init__ and LinearBezierCurve.__init__ set the
\* control points alone.
InitCurve(c) ==
    /\ curve = c
    /\ has_baked = (c.kind = "Cubic")
    /\ baked = FALSE
    /\ arc_table = << >>
    /\ arc_length = 0
    /\ pc = "idle"
    /\ steps = 0
    /\ result = NoResult
    /\ reader = NoReader
    /\ EventsIdle
    /\ LoggingIdle

Init == \E c \in BakedCurves : InitCurve(c)

Bakeable == curve.kind \in {"Quadratic", "Cubic"}

\* resolve(t)
ResolveCall(t) ==
    /\ pc = "idle"
    /\ result' = Returned("resolve", << t >>, Resolve(curve, t), t, << >>, << >>)
    /\ UNCHANGED << curve, has_baked, baked, arc_table, arc_length, pc, steps >>
    /\ UNCHANGED << reader, events_vars, file_vars, logger_vars >>

\* bounding_box()
BoundingBoxCall ==
    /\ pc = "idle"
    /\ result' = Returned("bounding_box", << >>, NoPoint, 0,
                          bounding_box(curve), << >>)
    /\ UNCHANGED << curve, has_baked, baked, arc_table, arc_length, pc, steps >>
    /\ UNCHANGED << reader, events_vars, file_vars, logger_vars >>

\* bake whose first statement adds the new table to the one stored
BakeTableAppend(n) ==
    /\ pc = "idle"
    /\ Bakeable
    /\ arc_table' = arc_table \o build_arc_table(curve, n)
    /\ steps' = n
    /\ pc' = "bake_length"
    /\ result' = Running("bake", << n >>)
    /\ UNCHANGED << curve, has_baked, baked, arc_length >>
    /\ UNCHANGED << reader, events_vars, file_vars, logger_vars >>

\* bake(steps), first statement: self._arc_table = build_arc_table(self, steps)
BakeTable(n) ==
    /\ pc = "idle"
    /\ Bakeable
    /\ arc_table' = build_arc_table(curve, n)
    /\ steps' = n
    /\ pc' = "bake_length"
    /\ result' = Running("bake", << n >>)
    /\ UNCHANGED << curve, has_baked, baked, arc_length >>
    /\ UNCHANGED << reader, events_vars, file_vars, logger_vars >>

\* bake whose second statement reads the t of the last entry, not its length
BakeLengthWrongField ==
    /\ pc = "bake_length"
    /\ arc_length' = arc_table[Len(arc_table)][1]
    /\ pc' = "bake_flag"
    /\ UNCHANGED << curve, has_baked, baked, arc_table, steps, result >>
    /\ UNCHANGED << reader, events_vars, file_vars, logger_vars >>

\* bake whose second statement reads the first entry of the table
BakeLengthFirstEntry ==
    /\ pc = "bake_length"
    /\ arc_length' = arc_table[1][2]
    /\ pc' = "bake_flag"
    /\ UNCHANGED << curve, has_baked, baked, arc_table, steps, result >>
    /\ UNCHANGED << reader, events_vars, file_vars, logger_vars >>

\* bake, second statement: self._arc_length = self._arc_table[-1][1]
BakeLength ==
    /\ pc = "bake_length"
    /\ arc_length' = arc_table[Len(arc_table)][2]
    /\ pc' = "bake_flag"
    /\ UNCHANGED << curve, has_baked, baked, arc_table, steps, result >>
    /\ UNCHANGED << reader, events_vars, file_vars, logger_vars >>

\* bake, third statement: self._baked = True; the call returns None
BakeFlag ==
    /\ pc = "bake_flag"
    /\ baked' = TRUE
    /\ has_baked' = TRUE
    /\ pc' = "idle"
    /\ result' = [result EXCEPT !.status = "ok"]
    /\ UNCHANGED << curve, arc_table, arc_length, steps >>
    /\ UNCHANGED << reader, events_vars, file_vars, logger_vars >>

\* float("inf"), float("-inf") and float("nan"): no number of the model
\* comes near them
Infinity == 2^30
NaN == 2^30 + 1
IsFinite(x) == Abs(x) < Infinity

\* u * x for an infinite u and a finite x: inf * 0.0 is nan
InfTimes(u, x) ==
    IF x = 0 THEN NaN
    ELSE IF (u > 0) = (x > 0) THEN Infinity ELSE -Infinity

\* t_at_arc_length(obj, s) for s that is infinite or nan and a finite table.
\* Every comparison with nan is false: neither early return is taken, every
\* iteration of the loop runs hi = mid, so the loop ends at the first two
\* entries (at the only entry of a one-entry table); the division raises
\* when s1 - s0 is zero and gives nan otherwise.
t_at_arc_length_nonfinite(table, arc_len, s) ==
    IF s = -Infinity THEN [status |-> "ok", t |-> 0]
    ELSE IF s = Infinity THEN [status |-> "ok", t |-> FromInt(1)]
    ELSE LET lo == 1
             hi == Min2(2, Len(table))
         IN  IF FSub(table[hi][2], table[lo][2]) = 0
             THEN [status |-> "ZeroDivisionError", t |-> 0]
             ELSE [status |-> "ok", t |-> NaN]

\* what resolve_uniform(u) returns or raises in the current state
resolve_uniform(u) ==
    IF ~has_baked THEN Raised("resolve_uniform", << u >>, "AttributeError")
    ELSE IF ~baked THEN Raised("resolve_uniform", << u >>, "NotBaked")
    ELSE LET s == IF IsFinite(u) THEN FMul(u, arc_length)
                  ELSE InfTimes(u, arc_length)
             r == IF IsFinite(s) THEN t_at_arc_length(arc_table, arc_length, s)
                  ELSE t_at_arc_length_nonfinite(arc_table, arc_length, s)
         IN  IF r.status # "ok" THEN Raised("resolve_uniform", << u >>, r.status)
             ELSE Returned("resolve_uniform", << u >>, Resolve(curve, r.t),
                           r.t, << >>, << >>)

\* resolve_uniform that bakes with one step when the curve is not baked
ResolveUniformCall_LazyBake(u) ==
    /\ pc = "idle"
    /\ Bakeable
    /\ result' = resolve_uniform(u)
    /\ arc_table' = IF has_baked /\ baked THEN arc_table
                    ELSE build_arc_table(curve, 1)
    /\ baked' = TRUE
    /\ has_baked' = TRUE
    /\ UNCHANGED << curve, arc_length, pc, steps >>
    /\ UNCHANGED << reader, events_vars, file_vars, logger_vars >>

\* resolve_uniform(u)
ResolveUniformCall(u) ==
    /\ pc = "idle"
    /\ Bakeable
    /\ result' = resolve_uniform(u)
    /\ UNCHANGED << curve, has_baked, baked, arc_table, arc_length, pc, steps >>
    /\ UNCHANGED << reader, events_vars, file_vars, logger_vars >>

\* the life of a curve that is baked and resolved uniformly
Next ==
    \/ \E n \in StepsArgs : BakeTable(n)
    \/ BakeLength
    \/ BakeFlag
    \/ \E u \in Params : ResolveUniformCall(u)

Spec == Init /\ [][Next]_vars

\* ------------------------------------------------------------ evaluation alone
InitEval == \E c \in EvalCurves : InitCurve(c)
NextEval ==
    \/ \E t \in Params : ResolveCall(t)
    \/ BoundingBoxCall
SpecEval == InitEval /\ [][NextEval]_vars

\* ------------------------------------------------------------ derivative and curvature
\* derivative()
DerivativeCall ==
    /\ pc = "idle"
    /\ result' = [Returned("derivative", << >>, NoPoint, 0, << >>, << >>)
                      EXCEPT !.deriv = derivative(curve)]
    /\ UNCHANGED << curve, has_baked, baked, arc_table, arc_length, pc, steps >>
    /\ UNCHANGED << reader, events_vars, file_vars, logger_vars >>

\* curvature(t, self.derivative(), self.derivative().derivative())
CurvatureCall(t) ==
    /\ pc = "idle"
    /\ LET r == curvature(curve, t)
       IN  result' = IF r.status = "ok"
                     THEN [Returned("curvature", << t >>, NoPoint, t, << >>, << >>)
                              EXCEPT !.value = r.value]
                     ELSE Raised("curvature", << t >>, r.status)
    /\ UNCHANGED << curve, has_baked, baked, arc_table, arc_length, pc, steps >>
    /\ UNCHANGED << reader, events_vars, file_vars, logger_vars >>

InitCurv == \E c \in CurvCurves : InitCurve(c)
NextCurv ==
    \/ DerivativeCall
    \/ \E t \in UnitParams : CurvatureCall(t)
    \/ BoundingBoxCall
SpecCurv == InitCurv /\ [][NextCurv]_vars

\* ------------------------------------------------------------ every curve operation
FramePoints == {Point(0, 0), Point(F \div 2, F \div 2)}
FrameCurves ==
    LinearCurves(FramePoints) \cup QuadraticCurves(FramePoints)
        \cup CubicCurves(FramePoints)

InitFrame == \E c \in FrameCurves : InitCurve(c)
NextFrame ==
    \/ \E t \in Params : ResolveCall(t)
    \/ DerivativeCall
    \/ BoundingBoxCall
    \/ \E t \in UnitParams : CurvatureCall(t)
    \/ \E u \in Params : ResolveUniformCall(u)
    \/ \E n \in StepsArgs : BakeTable(n)
    \/ BakeLength
    \/ BakeFlag
SpecFrame == InitFrame /\ [][NextFrame]_vars

\* ------------------------------------------------------------ the table search, step by step
\* bake is called with these step counts
SearchSteps == {0, 1, MaxSteps, 2 * MaxSteps + 1}
SearchCurves == QuadraticCurves(PointsUpTo(NumPoints))

\* the values of s: every cumulative length of the table and its two
\* neighbours, which covers both sides of 0 and of arc_length
SearchArgs ==
    UNION {{arc_table[i][2], FSub(arc_table[i][2], Ulp(arc_table[i][2])),
            FAdd(arc_table[i][2], Ulp(arc_table[i][2]))} :
           i \in 1..Len(arc_table)}

\* t_at_arc_length that starts its search with hi one entry before the last
TAtArcLengthCall_ShortHi(s) ==
    /\ pc = "idle"
    /\ has_baked /\ baked
    /\ IF s <= 0
       THEN /\ result' = Returned("t_at_arc_length", << s >>, NoPoint, 0,
                                  << >>, << >>)
            /\ pc' = pc
       ELSE IF s >= arc_length
       THEN /\ result' = Returned("t_at_arc_length", << s >>, NoPoint,
                                  FromInt(1), << >>, << >>)
            /\ pc' = pc
       ELSE /\ result' = [Running("t_at_arc_length", << s >>) EXCEPT
                              !.lo = 1, !.hi = Len(arc_table) - 1]
            /\ pc' = "bisect"
    /\ UNCHANGED << curve, has_baked, baked, arc_table, arc_length, steps >>
    /\ UNCHANGED << reader, events_vars, file_vars, logger_vars >>

\* t_at_arc_length(obj, s), up to the loop
TAtArcLengthCall(s) ==
    /\ pc = "idle"
    /\ has_baked /\ baked
    /\ IF s <= 0
       THEN /\ result' = Returned("t_at_arc_length", << s >>, NoPoint, 0,
                                  << >>, << >>)
            /\ pc' = pc
       ELSE IF s >= arc_length
       THEN /\ result' = Returned("t_at_arc_length", << s >>, NoPoint,
                                  FromInt(1), << >>, << >>)
            /\ pc' = pc
       ELSE /\ result' = [Running("t_at_arc_length", << s >>) EXCEPT
                              !.lo = 1, !.hi = Len(arc_table)]
            /\ pc' = "bisect"
    /\ UNCHANGED << curve, has_baked, baked, arc_table, arc_length, steps >>
    /\ UNCHANGED << reader, events_vars, file_vars, logger_vars >>

\* one iteration of  while lo + 1 < hi
BisectIteration ==
    /\ pc = "bisect"
    /\ result.lo + 1 < result.hi
    /\ LET n == BisectStep(arc_table, result.arg[1], result.lo, result.hi)
       IN  result' = [result EXCEPT !.lo = n[1], !.hi = n[2]]
    /\ UNCHANGED << curve, has_baked, baked, arc_table, arc_length, pc, steps >>
    /\ UNCHANGED << reader, events_vars, file_vars, logger_vars >>

\* the loop ends and the function interpolates between table[lo] and table[hi]
BisectEnd ==
    /\ pc = "bisect"
    /\ ~(result.lo + 1 < result.hi)
    /\ LET r == Interpolate(arc_table, result.arg[1], result.lo, result.hi)
       IN  result' = [result EXCEPT !.status = r.status, !.t = r.t]
    /\ pc' = "idle"
    /\ UNCHANGED << curve, has_baked, baked, arc_table, arc_length, steps >>
    /\ UNCHANGED << reader, events_vars, file_vars, logger_vars >>

InitSearch == \E c \in SearchCurves : InitCurve(c)
NextSearch ==
    \/ \E n \in SearchSteps : BakeTable(n)
    \/ BakeLength
    \/ BakeFlag
    \/ \E s \in SearchArgs : TAtArcLengthCall(s)
    \/ BisectIteration
    \/ BisectEnd
SpecSearch == InitSearch /\ [][NextSearch]_vars

\* ------------------------------------------------------------ tables with flat segments
\* control points on one line: curves that stand still, start slowly (the
\* first samples round to the starting point) or go out and come back
FlatPoints == {Point(0, 0), Point(4, 0), Point(FromInt(1), 0)}
FlatCurves == QuadraticCurves(FlatPoints) \cup CubicCurves(FlatPoints)

InitFlat == \E c \in FlatCurves : InitCurve(c)
NextFlat ==
    \/ \E n \in StepsArgs \cup {-1} : BakeTable(n)
    \/ BakeLength
    \/ BakeFlag
    \/ \E u \in Params \cup {Infinity, -Infinity} : ResolveUniformCall(u)
SpecFlat == InitFlat /\ [][NextFlat]_vars

\* ------------------------------------------------------------ a second thread
\* A resolve_uniform call that runs in a second thread while the first thread
\* bakes.  Neither method takes a lock; each read of an attribute of the
\* curve is a step of its own and sees what the statements of bake have
\* written so far.  reader.undisturbed and reader.seen record whether the
\* call ran with no bake in progress and with the table and length unchanged
\* from its first statement on.
Quiet == pc = "idle" /\ << arc_table, arc_length >> = reader.seen

\* resolve_uniform(u), first statement: if not self._baked: raise ...
ReaderCheck(u) ==
    /\ reader.pc \in {"idle", "done"}
    /\ Bakeable
    /\ reader' =
           [NoReader EXCEPT
               !.u = u,
               !.pc = IF has_baked /\ baked THEN "length" ELSE "done",
               !.status = IF ~has_baked THEN "AttributeError"
                          ELSE IF ~baked THEN "NotBaked" ELSE "running",
               !.undisturbed = (pc = "idle"),
               !.seen = << arc_table, arc_length >>]
    /\ UNCHANGED << curve, has_baked, baked, arc_table, arc_length, pc, steps,
                    result >>
    /\ UNCHANGED << events_vars, file_vars, logger_vars >>

\* s = u * self._arc_length
ReaderLength ==
    /\ reader.pc = "length"
    /\ reader' = [reader EXCEPT !.pc = "table",
                                !.s = FMul(reader.u, arc_length),
                                !.length = arc_length,
                                !.undisturbed = @ /\ Quiet]
    /\ UNCHANGED << curve, has_baked, baked, arc_table, arc_length, pc, steps,
                    result >>
    /\ UNCHANGED << events_vars, file_vars, logger_vars >>

\* t_at_arc_length: table = obj._arc_table; if s <= 0.0: return 0.0
ReaderTable ==
    /\ reader.pc = "table"
    /\ reader' =
           IF reader.s <= 0
           THEN [reader EXCEPT !.pc = "done", !.table = arc_table,
                               !.status = "ok", !.t = 0,
                               !.point = Resolve(curve, 0),
                               !.undisturbed = @ /\ Quiet]
           ELSE [reader EXCEPT !.pc = "compare", !.table = arc_table,
                               !.undisturbed = @ /\ Quiet]
    /\ UNCHANGED << curve, has_baked, baked, arc_table, arc_length, pc, steps,
                    result >>
    /\ UNCHANGED << events_vars, file_vars, logger_vars >>

\* t_at_arc_length: if s >= obj._arc_length: return 1.0; then the search and
\* the interpolation on the local table, and self.resolve(t)
ReaderCompare ==
    /\ reader.pc = "compare"
    /\ reader' =
           IF reader.s >= arc_length
           THEN [reader EXCEPT !.pc = "done", !.status = "ok",
                               !.t = FromInt(1),
                               !.point = Resolve(curve, FromInt(1)),
                               !.undisturbed = @ /\ Quiet]
           ELSE LET b == Bisect(reader.table, reader.s, 1, Len(reader.table))
                    r == Interpolate(reader.table, reader.s, b[1], b[2])
                IN  [reader EXCEPT !.pc = "done", !.status = r.status,
                                   !.t = r.t, !.lo = b[1], !.hi = b[2],
                                   !.point = IF r.status = "ok"
                                             THEN Resolve(curve, r.t)
                                             ELSE NoPoint,
                                   !.undisturbed = @ /\ Quiet]
    /\ UNCHANGED << curve, has_baked, baked, arc_table, arc_length, pc, steps,
                    result >>
    /\ UNCHANGED << events_vars, file_vars, logger_vars >>

\* a curve of each class that stands still and one that moves
ThreadCurves ==
    {QuadraticBezierCurve(Point(0, 0), Point(0, 0), Point(0, 0)),
     QuadraticBezierCurve(Point(0, 0), Point(FromInt(1), 0),
                          Point(FromInt(1), FromInt(1))),
     CubicBezierCurve(Point(0, 0), Point(0, 0), Point(0, 0), Point(0, 0)),
     CubicBezierCurve(Point(0, 0), Point(FromInt(1), 0),
                      Point(FromInt(1), FromInt(1)), Point(0, FromInt(1)))}
\* bake is called with these step counts
ThreadSteps == {0, 1, MaxSteps}
\* the values of u of the second thread: the middle and the end of the curve
ThreadParams == {FDiv(FromInt(1), FromInt(2)), FromInt(1)}

InitThreads == \E c \in ThreadCurves : InitCurve(c)
NextThreads ==
    \/ \E n \in ThreadSteps : BakeTable(n)
    \/ BakeLength
    \/ BakeFlag
    \/ \E u \in ThreadParams : ReaderCheck(u)
    \/ ReaderLength
    \/ ReaderTable
    \/ ReaderCompare
SpecThreads == InitThreads /\ [][NextThreads]_vars

\* ------------------------------------------------------------ the root solver alone
\* the whole numbers -MaxCoef .. MaxCoef and the smallest positive number
Coefs == {FromInt(k) : k \in (-MaxCoef)..MaxCoef} \cup {1}

\* quadratic_roots(a, b, c), on the coefficients the initial state drew
QuadraticRootsCall ==
    /\ result.op = "quadratic_roots" /\ result.status = "running"
    /\ result' = [result EXCEPT
                      !.status = "ok",
                      !.roots = quadratic_roots(result.arg[1], result.arg[2],
                                                result.arg[3])]
    /\ UNCHANGED << curve, has_baked, baked, arc_table, arc_length, pc, steps >>
    /\ UNCHANGED << reader, events_vars, file_vars, logger_vars >>

InitRoots ==
    \E a \in Coefs, b \in Coefs, c \in Coefs :
        /\ curve = LinearBezierCurve(Palette[1], Palette[2])
        /\ has_baked = FALSE
        /\ baked = FALSE
        /\ arc_table = << >>
        /\ arc_length = 0
        /\ pc = "idle"
        /\ steps = 0
        /\ result = [NoResult EXCEPT !.op = "quadratic_roots",
                                     !.arg = << a, b, c >>,
                                     !.status = "running"]
        /\ reader = NoReader
        /\ EventsIdle
        /\ LoggingIdle
NextRoots == QuadraticRootsCall
SpecRoots == InitRoots /\ [][NextRoots]_vars


\* ------------------------------------------------------------ events (events.py)
\* what on() and once() append to a list: fn itself, or the wrapper that
\* once() builds around fn; id is the registration that appended it, and is
\* the identity of the wrapper
Entry(fn, is_once, id) == [fn |-> fn, once |-> is_once, id |-> id]

\* the least member of the set of indices I, 0 if there is none
FirstOf(I) ==
    IF I = {} THEN 0 ELSE CHOOSE i \in I : \A j \in I : i <= j

\* handlers.remove(x) where x is the element at index i: the list without
\* it, or the list itself when i = 0 (ValueError, which off() swallows)
RemoveAt(seq, i) ==
    IF i = 0 THEN seq
    ELSE SubSeq(seq, 1, i - 1) \o SubSeq(seq, i + 1, Len(seq))

\* on(name, fn): self._handlers.setdefault(name, []).append(fn)
on(h, name, e) == [h EXCEPT ![name] = Append(@, e)]

\* off(name, fn): a wrapper never equals a function, a function equals itself
IsFn(fn, e) == ~e.once /\ e.fn = fn
off(h, name, fn) ==
    [h EXCEPT ![name] =
        RemoveAt(@, FirstOf({i \in 1..Len(h[name]) : IsFn(fn, h[name][i])}))]

\* off(name, wrapper), as the once wrapper calls it
IsWrapper(id, e) == e.once /\ e.id = id
off_wrapper(h, name, id) ==
    [h EXCEPT ![name] =
        RemoveAt(@, FirstOf({i \in 1..Len(h[name]) : IsWrapper(id, h[name][i])}))]

\* off(name): self._handlers.pop(name, None)
off_all(h, name) == [h EXCEPT ![name] = << >>]

\* frames of the stack
\* an emit frame holds the copy of the list as pending, the callables still
\* to call; started and called record the copy as it was made and the
\* callables the loop has called so far
EmitFrame(name, pending) ==
    [kind |-> "emit", name |-> name, pending |-> pending,
     started |-> pending, called |-> << >>,
     snapshot |-> NoHandlers, born |-> 0, id |-> 0]
CallFrame(id) ==
    [kind |-> "call", name |-> "", pending |-> << >>,
     started |-> << >>, called |-> << >>,
     snapshot |-> NoHandlers, born |-> 0, id |-> id]
ScopeFrame(kind, snapshot, born) ==
    [kind |-> kind, name |-> "", pending |-> << >>,
     started |-> << >>, called |-> << >>,
     snapshot |-> snapshot, born |-> born, id |-> 0]
ScopeKinds == {"scope", "isolated_scope"}

Top == stack[Len(stack)]
Pop == SubSeq(stack, 1, Len(stack) - 1)

\* caller code is running: the program's top level, the body of a handler,
\* or the body of a with block
UserCode ==
    /\ ~raising
    /\ IF stack = << >> THEN TRUE ELSE Top.kind # "emit"

\* on(name, fn)
On(name, fn) ==
    /\ UserCode
    /\ Len(calls) < MaxRegistrations
    /\ handlers' = on(handlers, name, Entry(fn, FALSE, Len(calls) + 1))
    /\ calls' = Append(calls, 0)
    /\ UNCHANGED << stack, raising >>
    /\ UNCHANGED << bezier_vars, file_vars, logger_vars >>

\* once(name, fn): self.on(name, wrapper)
Once(name, fn) ==
    /\ UserCode
    /\ Len(calls) < MaxRegistrations
    /\ handlers' = on(handlers, name, Entry(fn, TRUE, Len(calls) + 1))
    /\ calls' = Append(calls, 0)
    /\ UNCHANGED << stack, raising >>
    /\ UNCHANGED << bezier_vars, file_vars, logger_vars >>

\* off(name, fn)
Off(name, fn) ==
    /\ UserCode
    /\ handlers' = off(handlers, name, fn)
    /\ UNCHANGED << stack, raising, calls >>
    /\ UNCHANGED << bezier_vars, file_vars, logger_vars >>

\* off(name)
OffAll(name) ==
    /\ UserCode
    /\ handlers' = off_all(handlers, name)
    /\ UNCHANGED << stack, raising, calls >>
    /\ UNCHANGED << bezier_vars, file_vars, logger_vars >>

\* emit(name), up to the loop: list(self._handlers.get(name, []))
EmitCall(name) ==
    /\ UserCode
    /\ Len(stack) + 2 <= MaxDepth
    /\ \A i \in 1..Len(calls) : calls[i] < MaxCalls
    /\ stack' = Append(stack, EmitFrame(name, handlers[name]))
    /\ UNCHANGED << handlers, raising, calls >>
    /\ UNCHANGED << bezier_vars, file_vars, logger_vars >>

\* an emit that iterates over the list itself, not over a copy of it: when
\* a once wrapper removes itself the rest of the list moves up and the
\* loop passes over the callable that followed the wrapper
EmitNext_Live ==
    /\ ~raising
    /\ stack # << >> /\ Top.kind = "emit" /\ Top.pending # << >>
    /\ LET e == Head(Top.pending)
           rest == IF e.once /\ Len(Top.pending) > 1
                   THEN Tail(Tail(Top.pending)) ELSE Tail(Top.pending)
       IN  /\ handlers' = IF e.once THEN off_wrapper(handlers, Top.name, e.id)
                          ELSE handlers
           /\ calls' = IF e.once THEN [calls EXCEPT ![e.id] = @ + 1] ELSE calls
           /\ stack' = Append(Append(Pop, [Top EXCEPT !.pending = rest,
                                                      !.called = Append(@, e)]),
                              CallFrame(e.id))
    /\ UNCHANGED raising
    /\ UNCHANGED << bezier_vars, file_vars, logger_vars >>

\* emit, one turn of the loop: fn(*args, **kwargs) on the next callable of
\* the copy; a once wrapper removes itself and then calls its fn
EmitNext ==
    /\ ~raising
    /\ stack # << >> /\ Top.kind = "emit" /\ Top.pending # << >>
    /\ LET e == Head(Top.pending)
       IN  /\ handlers' = IF e.once THEN off_wrapper(handlers, Top.name, e.id)
                          ELSE handlers
           /\ calls' = IF e.once THEN [calls EXCEPT ![e.id] = @ + 1] ELSE calls
           /\ stack' = Append(Append(Pop, [Top EXCEPT !.pending = Tail(@),
                                                      !.called = Append(@, e)]),
                              CallFrame(e.id))
    /\ UNCHANGED raising
    /\ UNCHANGED << bezier_vars, file_vars, logger_vars >>

\* emit returns when the copy is exhausted
EmitReturn ==
    /\ ~raising
    /\ stack # << >> /\ Top.kind = "emit" /\ Top.pending = << >>
    /\ stack' = Pop
    /\ UNCHANGED << handlers, raising, calls >>
    /\ UNCHANGED << bezier_vars, file_vars, logger_vars >>

\* the running handler returns
HandlerReturn ==
    /\ ~raising
    /\ stack # << >> /\ Top.kind = "call"
    /\ stack' = Pop
    /\ UNCHANGED << handlers, raising, calls >>
    /\ UNCHANGED << bezier_vars, file_vars, logger_vars >>

\* the running handler raises
Raise ==
    /\ UserCode
    /\ stack # << >> /\ Top.kind = "call"
    /\ raising' = TRUE
    /\ UNCHANGED << handlers, stack, calls >>
    /\ UNCHANGED << bezier_vars, file_vars, logger_vars >>

\* an exception leaves a frame whose with block did not restore the registry
Propagate_NoFinally ==
    /\ raising
    /\ stack # << >>
    /\ stack' = Pop
    /\ raising' = (Len(stack) > 1)
    /\ UNCHANGED << handlers, calls >>
    /\ UNCHANGED << bezier_vars, file_vars, logger_vars >>

\* an exception leaves the innermost frame: emit and the handlers catch
\* nothing, the finally clause of scope() and of isolated_scope() runs
\* self._handlers = snapshot; the top level ends the propagation
Propagate ==
    /\ raising
    /\ stack # << >>
    /\ handlers' = IF Top.kind \in ScopeKinds THEN Top.snapshot ELSE handlers
    /\ stack' = Pop
    /\ raising' = (Len(stack) > 1)
    /\ UNCHANGED calls
    /\ UNCHANGED << bezier_vars, file_vars, logger_vars >>

\* the with blocks in progress
OpenScopes == {i \in 1..Len(stack) : stack[i].kind \in ScopeKinds}

\* with self.scope(): the snapshot copies every list
ScopeEnter ==
    /\ UserCode
    /\ Len(stack) < MaxDepth
    /\ Cardinality(OpenScopes) < MaxScopes
    /\ stack' = Append(stack, ScopeFrame("scope", handlers, Len(calls)))
    /\ UNCHANGED << handlers, raising, calls >>
    /\ UNCHANGED << bezier_vars, file_vars, logger_vars >>

\* with self.isolated_scope(): the snapshot, then self._handlers = {}
IsolatedScopeEnter ==
    /\ UserCode
    /\ Len(stack) < MaxDepth
    /\ Cardinality(OpenScopes) < MaxScopes
    /\ stack' = Append(stack, ScopeFrame("isolated_scope", handlers,
                                         Len(calls)))
    /\ handlers' = NoHandlers
    /\ UNCHANGED << raising, calls >>
    /\ UNCHANGED << bezier_vars, file_vars, logger_vars >>

\* the with block ends normally: finally: self._handlers = snapshot
ScopeExit ==
    /\ ~raising
    /\ stack # << >> /\ Top.kind \in ScopeKinds
    /\ handlers' = Top.snapshot
    /\ stack' = Pop
    /\ UNCHANGED << raising, calls >>
    /\ UNCHANGED << bezier_vars, file_vars, logger_vars >>

InitEvents ==
    /\ BezierIdle
    /\ EventsIdle
    /\ LoggingIdle
NextEvents ==
    \/ \E name \in EventNames, fn \in Fns : On(name, fn)
    \/ \E name \in EventNames, fn \in Fns : Once(name, fn)
    \/ \E name \in EventNames, fn \in Fns : Off(name, fn)
    \/ \E name \in EventNames : OffAll(name)
    \/ \E name \in EventNames : EmitCall(name)
    \/ EmitNext
    \/ EmitReturn
    \/ HandlerReturn
    \/ Raise
    \/ Propagate
    \/ ScopeEnter
    \/ IsolatedScopeEnter
    \/ ScopeExit
SpecEvents == InitEvents /\ [][NextEvents]_vars

\* ------------------------------------------------------------ FileLogger (loggers.py)
NewLine == 0

\* "\n".join(lines)
RECURSIVE Join(_)
Join(lines) ==
    IF lines = << >> THEN << >>
    ELSE IF Len(lines) = 1 THEN lines
    ELSE << Head(lines), NewLine >> \o Join(Tail(lines))

\* flush that writes the joined lines without the final newline
flush_NoFinalNewline(is_closed, text, lines) ==
    IF is_closed \/ lines = << >>
    THEN [file |-> text, buffer |-> lines]
    ELSE [file |-> text \o Join(lines), buffer |-> << >>]

\* flush(): nothing when closed or when the buffer is empty; else
\* self.file.write("\n".join(self.buffer) + "\n"), then self.buffer.clear()
flush(is_closed, text, lines) ==
    IF is_closed \/ lines = << >>
    THEN [file |-> text, buffer |-> lines]
    ELSE [file |-> text \o Join(lines) \o << NewLine >>, buffer |-> << >>]

\* emit(msg, ...): nothing when closed; else the line joins the buffer, and
\* flush() runs when the buffer holds buffer_size lines
FileEmit(line) ==
    /\ Len(accepted) < MaxLines
    /\ last_call' = "emit"
    /\ IF closed
       THEN UNCHANGED << file, buffer, accepted >>
       ELSE /\ accepted' = Append(accepted, line)
            /\ LET appended == Append(buffer, line)
                   flushed == flush(closed, file, appended)
               IN  IF Len(appended) >= buffer_size
                   THEN file' = flushed.file /\ buffer' = flushed.buffer
                   ELSE file' = file /\ buffer' = appended
    /\ UNCHANGED << buffer_size, closed, file_closed >>
    /\ UNCHANGED << bezier_vars, events_vars, logger_vars >>

\* flush()
FileFlush ==
    /\ last_call' = "flush"
    /\ file' = flush(closed, file, buffer).file
    /\ buffer' = flush(closed, file, buffer).buffer
    /\ UNCHANGED << buffer_size, closed, file_closed, accepted >>
    /\ UNCHANGED << bezier_vars, events_vars, logger_vars >>

\* close(): nothing when closed; else flush(), self.file.close(),
\* self.closed = True
FileClose ==
    /\ last_call' = "close"
    /\ IF closed
       THEN UNCHANGED << file, buffer, file_closed, closed >>
       ELSE /\ file' = flush(closed, file, buffer).file
            /\ buffer' = flush(closed, file, buffer).buffer
            /\ file_closed' = TRUE
            /\ closed' = TRUE
    /\ UNCHANGED << buffer_size, accepted >>
    /\ UNCHANGED << bezier_vars, events_vars, logger_vars >>

BufferSizeArgs == (-1)..MaxBufferSize
\* the formatted lines
Lines == {1, 2}

InitFile ==
    /\ BezierIdle
    /\ EventsIdle
    /\ \E size \in BufferSizeArgs : FileLoggerInit(size)
    /\ LoggerInit(INFO, [h \in Handlers |-> INFO])
NextFile ==
    \/ \E line \in Lines : FileEmit(line)
    \/ FileFlush
    \/ FileClose
SpecFile == InitFile /\ [][NextFile]_vars

\* ------------------------------------------------------------ Logger (loggers.py)
\* self._handlers.remove(handler): the list without the first handler
RemoveFirst(seq, h) ==
    LET I == {i \in 1..Len(seq) : seq[i] = h}
    IN  IF I = {} THEN seq
        ELSE LET k == CHOOSE i \in I : \A j \in I : i <= j
             IN  SubSeq(seq, 1, k - 1) \o SubSeq(seq, k + 1, Len(seq))

\* attach(handler)
Attach(h) ==
    /\ Len(logger_handlers) < MaxAttached
    /\ logger_handlers' = Append(logger_handlers, h)
    /\ delivered' = [x \in Handlers |-> 0]
    /\ last_log' = 0
    /\ UNCHANGED << logger_level, handler_level >>
    /\ UNCHANGED << bezier_vars, events_vars, file_vars >>

\* detach(handler)
Detach(h) ==
    /\ logger_handlers' = RemoveFirst(logger_handlers, h)
    /\ delivered' = [x \in Handlers |-> 0]
    /\ last_log' = 0
    /\ UNCHANGED << logger_level, handler_level >>
    /\ UNCHANGED << bezier_vars, events_vars, file_vars >>

\* BaseHandler.handle that compares with <=
Handled_Strict(h, level) == ~(level <= handler_level[h])

\* BaseHandler.handle(msg, level, ...): emit unless level < self.level
Handled(h, level) == ~(level < handler_level[h])

\* the emit calls that the loop of _log makes on handler h
RECURSIVE FanOut(_, _, _)
FanOut(list, h, level) ==
    IF list = << >> THEN 0
    ELSE (IF Head(list) = h /\ Handled(h, level) THEN 1 ELSE 0)
         + FanOut(Tail(list), h, level)

\* _log(level, msg): nothing below the logger's level or without handlers;
\* else handler.handle(...) for every entry of self._handlers
Log(level) ==
    /\ last_log' = level
    /\ delivered' = IF level < logger_level \/ logger_handlers = << >>
                    THEN [h \in Handlers |-> 0]
                    ELSE [h \in Handlers |-> FanOut(logger_handlers, h, level)]
    /\ UNCHANGED << logger_level, logger_handlers, handler_level >>
    /\ UNCHANGED << bezier_vars, events_vars, file_vars >>

InitLogger ==
    /\ BezierIdle
    /\ EventsIdle
    /\ FileLoggerInit(DefaultBufferSize)
    /\ \E level \in Levels, levels \in [Handlers -> Levels] :
           LoggerInit(level, levels)
NextLogger ==
    \/ \E h \in Handlers : Attach(h)
    \/ \E h \in Handlers : Detach(h)
    \/ \E level \in Levels : Log(level)
SpecLogger == InitLogger /\ [][NextLogger]_vars

\* ------------------------------------------------------------ properties
FirstPoint(obj) == obj.P1
LastPoint(obj) ==
    CASE obj.kind = "Linear" -> obj.P2
      [] obj.kind = "Quadratic" -> obj.P3
      [] obj.kind = "Cubic" -> obj.P4

\* bake has never been called: no statement of it has run
NeverBaked == arc_table = << >>
\* a bake with steps >= 1 has completed and no bake is in progress
BakedIdle == pc = "idle" /\ has_baked /\ baked /\ steps >= 1
Clamp01(u) == Max2(0, Min2(FromInt(1), u))
UniformReturned == result.op = "resolve_uniform" /\ result.status = "ok"

\* C1: resolve_uniform(u) on a Quadratic or Cubic curve on which bake has
\* never been called fails with the not-baked error that resolve_uniform
\* itself raises, for every u.
C1_NotBakedError ==
    (NeverBaked /\ result.op = "resolve_uniform") => result.status = "NotBaked"

\* C2: after bake(steps) with steps >= 1, resolve_uniform(0.0) returns the
\* point resolve(0.0) and resolve_uniform(1.0) returns the point resolve(1.0),
\* also when the sampled arc length is 0.
C2_UniformEndpoints ==
    (BakedIdle /\ result.op = "resolve_uniform") =>
        /\ result.status = "ok"
        /\ result.arg = << 0 >> => result.point = Resolve(curve, 0)
        /\ result.arg = << FromInt(1) >> => result.point = Resolve(curve, FromInt(1))

\* resolve_uniform(1.0) has returned on a curve that is not a single point and
\* whose sampled arc length is 0
C2_Witness ==
    /\ BakedIdle /\ UniformReturned
    /\ result.arg = << FromInt(1) >>
    /\ arc_length = 0
    /\ curve.P1 # curve.P2

\* C3: on a baked curve, u <= 0 chooses exactly t = 0 and u >= 1 chooses
\* exactly t = 1, so resolve_uniform(u) returns what
\* resolve_uniform(clamp(u, 0, 1)) returns.
C3_ClampedParameter ==
    (BakedIdle /\ UniformReturned) =>
        /\ result.arg[1] <= 0 => result.t = 0
        /\ result.arg[1] >= FromInt(1) => result.t = FromInt(1)
        /\ LET c == resolve_uniform(Clamp01(result.arg[1]))
           IN  c.status = "ok" /\ c.point = result.point

\* C4: whenever no bake is in progress, the cumulative_length of the last
\* entry of arc_table is the stored arc_length.
C4_LastEntryIsArcLength ==
    (pc = "idle" /\ ~NeverBaked) => arc_table[Len(arc_table)][2] = arc_length

\* a second bake, with another steps, has completed on a curve of positive length
C4_Witness ==
    /\ BakedIdle /\ result.op = "bake"
    /\ result.before >= 1 /\ result.before # steps
    /\ arc_length > 0
    /\ arc_table[Len(arc_table)][2] = arc_length

\* C5: in every baked state the arc table is non-empty, its first entry is
\* (0, 0), its t values are strictly ascending and its cumulative_length values
\* never decrease from one entry to the next.
C5_TableShape ==
    (has_baked /\ baked) =>
        /\ Len(arc_table) >= 1
        /\ arc_table[1] = << 0, 0 >>
        /\ \A i \in 1..(Len(arc_table) - 1) :
               /\ arc_table[i][1] < arc_table[i + 1][1]
               /\ arc_table[i][2] <= arc_table[i + 1][2]

\* a baked table of positive length that has a segment of length 0
C5_Witness ==
    /\ BakedIdle /\ arc_length > 0
    /\ \E i \in 1..(Len(arc_table) - 1) : arc_table[i][2] = arc_table[i + 1][2]

\* t_i = i / steps
SampleT(i, n) == FDiv(FromInt(i), FromInt(n))
RECURSIVE ChordSum(_, _, _)
\* the sum over j = 1..i of |resolve(t_j) - resolve(t_(j-1))|
ChordSum(obj, n, i) ==
    IF i = 0 THEN 0
    ELSE FAdd(ChordSum(obj, n, i - 1),
              PointLength(PointSub(Resolve(obj, SampleT(i, n)),
                                   Resolve(obj, SampleT(i - 1, n)))))

\* C6: bake(steps) with steps >= 1 stores a table of exactly steps + 1 entries;
\* entry i (i = 0..steps) has t = i / steps and the sum of the chord lengths
\* |resolve(t_j) - resolve(t_(j-1))|, j = 1..i, as its cumulative_length.
C6_TableContents ==
    (BakedIdle /\ result.op = "bake") =>
        /\ Len(arc_table) = steps + 1
        /\ arc_table[steps + 1][1] = FromInt(1)
        /\ \A i \in 0..steps :
               /\ arc_table[i + 1][1] = SampleT(i, steps)
               /\ arc_table[i + 1][2] = ChordSum(curve, steps, i)

\* bake(MaxSteps) has completed on a curve whose chords all have positive length
C6_Witness ==
    /\ BakedIdle /\ result.op = "bake" /\ steps = MaxSteps
    /\ \A i \in 1..steps : arc_table[i][2] < arc_table[i + 1][2]

\* C7: bake(a) followed by bake(b), a, b >= 1, leaves the baked state
\* (arc_table, arc_length, baked) that bake(b) alone leaves on the same control
\* points; in particular bake(a); bake(a) leaves what bake(a) leaves.
C7_RebakeReplaces ==
    (BakedIdle /\ result.op = "bake" /\ result.before >= 1) =>
        LET alone == build_arc_table(curve, steps)
        IN  /\ arc_table = alone
            /\ arc_length = alone[Len(alone)][2]
            /\ baked

\* bake(a); bake(b) has completed with a # b on a curve of positive length
C7_Witness ==
    /\ BakedIdle /\ result.op = "bake"
    /\ result.before >= 1 /\ result.before # steps
    /\ arc_length > 0 /\ Len(arc_table) = steps + 1

\* ------------------------------------------------------------ evaluation
ResolveReturned == result.op = "resolve" /\ result.status = "ok"

Probes == {FDiv(FromInt(k), FromInt(ProbeDen)) : k \in 0..ProbeDen}

\* point p lies in box = << min_x, min_y, max_x, max_y >> widened by slack
Inside(p, box, slack) ==
    /\ box[1] - slack <= p.x /\ p.x <= box[3] + slack
    /\ box[2] - slack <= p.y /\ p.y <= box[4] + slack

BoxReturned ==
    /\ result.op = "bounding_box" /\ result.status = "ok"
    /\ curve.kind \in {"Quadratic", "Cubic"}

\* the largest magnitude of a control-point coordinate of obj
MaxAbsCoord(obj) ==
    LET ps == IF obj.kind = "Quadratic"
              THEN << obj.P1, obj.P2, obj.P3 >>
              ELSE << obj.P1, obj.P2, obj.P3, obj.P4 >>
    IN  SeqMax([i \in 1..(2 * Len(ps)) |->
                   IF i <= Len(ps) THEN Abs(ps[i].x) ELSE Abs(ps[i - Len(ps)].y)])

\* C9: for every Quadratic and Cubic curve and every t in [0, 1], resolve(t)
\* lies inside the box that bounding_box() returns: min_x <= x <= max_x and
\* min_y <= y <= max_y.  The inequalities are given the slack of rounding, 16
\* spacings of the largest control-point coordinate plus the 1e-9 tolerance of
\* the degeneracy tests, so that no violation is one of rounding alone.
C9_InsideBox ==
    BoxReturned =>
        \A t \in Probes :
            Inside(Resolve(curve, t), result.box,
                   16 * Ulp(MaxAbsCoord(curve)) + (F \div EpsInv) + 1)

RootsReturned == result.op = "quadratic_roots" /\ result.status = "ok"

\* x * y / F rounded down, without the intermediate product x * y
MulQ(x, y) == x * (y \div F) + (x * (y % F)) \div F
\* a t^2 + b t + c, rounded down at each product, and the sum of the
\* magnitudes of its three terms
PolyAt(a, b, c, t) == MulQ(MulQ(a, t) + b, t) + c
TermsAt(a, b, c, t) == Abs(MulQ(MulQ(a, t), t)) + Abs(MulQ(b, t)) + Abs(c)

\* C10: quadratic_roots(a, b, c) returns no root when |a| and |b| are both
\* below epsilon, the single root -c/b when only |a| is, no root when
\* b^2 - 4ac is negative, otherwise the two roots (-b + sqrt(disc)) / (2a) and
\* (-b - sqrt(disc)) / (2a) in that order, so (1, -3, 2) gives 2 then 1; never
\* more than two roots; and every returned t satisfies a t^2 + b t + c = 0.
\* The equation is given the slack of rounding: 16 half-spacings of the sum of
\* the magnitudes of its terms, plus what PolyAt rounds away.
C10_QuadraticRoots ==
    RootsReturned =>
        LET a == result.arg[1]
            b == result.arg[2]
            c == result.arg[3]
            disc == b * b - 4 * a * c
            roots == result.roots
        IN  /\ Len(roots) <= 2
            /\ (BelowEps(a) /\ BelowEps(b)) => roots = << >>
            /\ (BelowEps(a) /\ ~BelowEps(b)) =>
                   Len(roots) = 1 /\ roots[1] = RoundQ(-c * F, b)
            /\ (~BelowEps(a) /\ disc < 0) => roots = << >>
            /\ (~BelowEps(a) /\ disc >= 0) =>
                   /\ Len(roots) = 2
                   /\ a > 0 => roots[1] >= roots[2]
                   /\ a < 0 => roots[1] <= roots[2]
            /\ result.arg = << FromInt(1), FromInt(-3), FromInt(2) >> =>
                   roots = << FromInt(2), FromInt(1) >>
            /\ \A i \in DOMAIN roots :
                   Abs(PolyAt(a, b, c, roots[i]))
                       <= (16 * TermsAt(a, b, c, roots[i])) \div MantLimit
                              + Abs(roots[i]) \div F + 2

\* ------------------------------------------------------------ curvature
CurvatureCalled == result.op = "curvature" /\ result.status # "running"
\* the velocity of the curvature query made: the first derivative at t
Velocity == Resolve(derivative(curve), result.arg[1])

\* C11: curvature never fails: on a Quadratic or Cubic curve it returns, and
\* it returns 0.0 where the velocity has length 0.
C11_CurvatureNeverFails ==
    (CurvatureCalled /\ curve.kind # "Linear") =>
        /\ result.status = "ok"
        /\ PointLength(Velocity) = 0 => result.value = 0

\* C12: a Linear curve answers a curvature query with 0 at every t, and its
\* bounding_box is the component-wise min and max of its two control points:
\* (0, 0, 4, 0) for P1 = (0, 0), P2 = (4, 0).
C12_LinearCurvatureAndBox ==
    curve.kind = "Linear" =>
        /\ CurvatureCalled => (result.status = "ok" /\ result.value = 0)
        /\ (result.op = "bounding_box" /\ result.status = "ok") =>
               /\ result.box = << Min2(curve.P1.x, curve.P2.x),
                                  Min2(curve.P1.y, curve.P2.y),
                                  Max2(curve.P1.x, curve.P2.x),
                                  Max2(curve.P1.y, curve.P2.y) >>
               /\ curve = LinearBezierCurve(Point(0, 0), Point(FromInt(4), 0)) =>
                      result.box = << 0, 0, FromInt(4), 0 >>

\* ------------------------------------------------------------ derivative
DerivativeReturned == result.op = "derivative" /\ result.status = "ok"
\* k (q - p): the difference, then the product, each rounded once
Scaled(k, p, q) ==
    Point(RoundQ(k * RoundQ(q.x - p.x, 1), 1), RoundQ(k * RoundQ(q.y - p.y, 1), 1))

\* C13: Cubic.derivative() is the Quadratic with control points 3(P2 - P1),
\* 3(P3 - P2), 3(P4 - P3); Quadratic.derivative() is the Linear with control
\* points 2(P2 - P1), 2(P3 - P2); Linear.derivative() is the point P2 - P1.
C13_DerivativeChain ==
    DerivativeReturned =>
        /\ curve.kind = "Cubic" =>
               result.deriv = [kind |-> "Quadratic",
                               P1 |-> Scaled(3, curve.P1, curve.P2),
                               P2 |-> Scaled(3, curve.P2, curve.P3),
                               P3 |-> Scaled(3, curve.P3, curve.P4)]
        /\ curve.kind = "Quadratic" =>
               result.deriv = [kind |-> "Linear",
                               P1 |-> Scaled(2, curve.P1, curve.P2),
                               P2 |-> Scaled(2, curve.P2, curve.P3)]
        /\ curve.kind = "Linear" => result.deriv = Scaled(1, curve.P1, curve.P2)

\* derivative() has returned on a Cubic curve a Quadratic whose three control
\* points differ from one another
C13_Witness ==
    /\ DerivativeReturned /\ curve.kind = "Cubic"
    /\ result.deriv.P1 # result.deriv.P2
    /\ result.deriv.P2 # result.deriv.P3
    /\ result.deriv.P1 # result.deriv.P3

\* ------------------------------------------------------------ uniform interpolation
\* resolve_uniform(u) was called with 0 < u < 1 on a curve baked with
\* steps >= 1 whose arc_length is positive
InteriorUniform ==
    /\ BakedIdle /\ result.op = "resolve_uniform"
    /\ arc_length > 0
    /\ 0 < result.arg[1] /\ result.arg[1] < FromInt(1)
\* s = u * arc_length, as resolve_uniform computes it
TargetLength == FMul(result.arg[1], arc_length)
\* the table segment that brackets s: entries i and i + 1 with
\* cumulative_length[i] < s <= cumulative_length[i + 1]
Bracket(s) ==
    CHOOSE i \in 1..(Len(arc_table) - 1) :
        arc_table[i][2] < s /\ s <= arc_table[i + 1][2]
\* (the piecewise-linear table length at t, minus s) * (t_hi - t_lo), on the
\* segment from entry i to entry i + 1
LengthGap(i, t, s) ==
    (t - arc_table[i][1]) * (arc_table[i + 1][2] - arc_table[i][2])
    - (s - arc_table[i][2]) * (arc_table[i + 1][1] - arc_table[i][1])

\* C14 as stated: for 0 < u < 1 on a baked curve with arc_length > 0, the t
\* that resolve_uniform chooses lies in the table segment [t_lo, t_hi] that
\* brackets s = u * arc_length, and the piecewise-linear table length at t is
\* s exactly.
C14_Original ==
    (InteriorUniform /\ 0 < TargetLength /\ TargetLength < arc_length) =>
        LET i == Bracket(TargetLength)
        IN  /\ result.status = "ok"
            /\ arc_table[i][1] <= result.t /\ result.t <= arc_table[i + 1][1]
            /\ LengthGap(i, result.t, TargetLength) = 0

\* C14 amended: resolve_uniform returns; where s rounds to 0 or to arc_length
\* t is 0 or 1; otherwise, on the segment that brackets s, the piecewise-linear
\* table length at t is s up to the rounding of the interpolation: t is within
\* 6 spacings of the exact parameter (and so of [t_lo, t_hi]), plus the
\* absolute rounding of a product below the normal range.
C14_UniformInterpolation ==
    InteriorUniform =>
        /\ result.status = "ok"
        /\ TargetLength <= 0 => result.t = 0
        /\ TargetLength >= arc_length => result.t = FromInt(1)
        /\ (0 < TargetLength /\ TargetLength < arc_length) =>
               LET i == Bracket(TargetLength)
               IN  Abs(LengthGap(i, result.t, TargetLength))
                       <= 6 * Ulp(result.t)
                              * (arc_table[i + 1][2] - arc_table[i][2]) + F

\* resolve_uniform(u), 0 < u < 1, has interpolated on a segment that is not the
\* first, and the table length at the chosen t is not s
C14_Witness ==
    /\ InteriorUniform /\ result.status = "ok"
    /\ 0 < TargetLength /\ TargetLength < arc_length
    /\ Bracket(TargetLength) > 1
    /\ LengthGap(Bracket(TargetLength), result.t, TargetLength) # 0

\* ------------------------------------------------------------ frame
\* C15: bake is the only operation that changes a curve. No step changes the
\* control points; a step of resolve, derivative, bounding_box, curvature or
\* resolve_uniform leaves arc_table, arc_length and the baked flag as they
\* were.
C15_OnlyBakeChanges ==
    [][ /\ curve' = curve
        /\ result'.op # "bake" =>
               UNCHANGED << has_baked, baked, arc_table, arc_length >> ]_vars

\* a curve was baked with at least one step, and resolve_uniform has then
\* returned on it
C15_Witness ==
    /\ BakedIdle /\ arc_length > 0 /\ Len(arc_table) = steps + 1
    /\ result.op = "resolve_uniform" /\ result.status = "ok"

\* ------------------------------------------------------------ events
\* C16: the fn of a once() registration is invoked at most once, whatever
\* the dispatcher is asked to do, emits from inside handlers and emits
\* inside and after scope() and isolated_scope() blocks included.
C16_OnceAtMostOnce ==
    \A i \in 1..Len(calls) : calls[i] <= 1

\* a scope() or isolated_scope() block ends in this step, normally or by an
\* exception
ScopeEnds ==
    /\ stack # << >>
    /\ Top.kind \in ScopeKinds
    /\ stack' = Pop

\* every callable of the registry h was registered by one of the first n
\* on() and once() calls
RegisteredBefore(h, n) ==
    \A name \in EventNames : \A i \in 1..Len(h[name]) : h[name][i].id <= n

\* every handler that runs inside an isolated_scope() block was registered
\* inside that block
IsolatedCalls ==
    \A i \in 1..Len(stack) : \A j \in (i + 1)..Len(stack) :
        (stack[i].kind = "isolated_scope" /\ stack[j].kind = "call")
            => stack[j].id > stack[i].born

\* C17: when a scope() or isolated_scope() block ends, normally or by an
\* exception, the registry is the registry of the block's entry, so nothing
\* registered inside the block is left; and inside an isolated_scope() block
\* an emit calls no handler registered before the block.
C17_ScopeRestores ==
    [][ /\ ScopeEnds =>
             /\ handlers' = Top.snapshot
             /\ RegisteredBefore(handlers', Top.born)
        /\ IsolatedCalls' ]_vars

\* a once wrapper that has run is in the registry again, which only the end
\* of a block can do
C17_Witness ==
    /\ stack = << >>
    /\ \E i \in 1..Len(calls) :
           /\ calls[i] >= 1
           /\ \E name \in EventNames : \E k \in 1..Len(handlers[name]) :
                  handlers[name][k].id = i

\* ------------------------------------------------------------ FileLogger
\* the lines of a text: the tokens between newlines, the last one ended by
\* a newline
RECURSIVE SplitLines(_, _)
SplitLines(text, line) ==
    IF text = << >> THEN (IF line = << >> THEN << >> ELSE << line >>)
    ELSE IF Head(text) = NewLine THEN << line >> \o SplitLines(Tail(text), << >>)
    ELSE SplitLines(Tail(text), line \o << Head(text) >>)

Multiplicity(h) ==
    Cardinality({i \in 1..Len(logger_handlers) : logger_handlers[i] = h})

\* C19: a _log call invokes the emit of an attached handler if and only if
\* the message level is >= the Logger's level and >= the handler's level; a
\* message below the Logger's level reaches no handler; a handler attached k
\* times gets a passing message k times.
C19_LevelFilter ==
    last_log # 0 =>
        \A h \in Handlers :
            delivered[h] =
                IF last_log >= logger_level /\ last_log >= handler_level[h]
                THEN Multiplicity(h) ELSE 0

\* a message passed the Logger and one handler attached twice, and was
\* below the level of another attached handler
C19_Witness ==
    /\ last_log # 0
    /\ \E h \in Handlers : delivered[h] = 2
    /\ \E h \in Handlers : Multiplicity(h) = 1 /\ delivered[h] = 0

\* ------------------------------------------------------------ the table search
\* cumulative_length[i]
CumLen(i) == arc_table[i][2]
\* t_at_arc_length(obj, s) is in its loop or has left it
Searching == result.op = "t_at_arc_length" /\ result.lo # 0

\* C20: for a baked table and 0 < s < arc_length, at every iteration of the
\* bisection cumulative_length[lo] < s <= cumulative_length[hi]; when the loop
\* has ended lo + 1 = hi, lo is the largest index whose cumulative length is
\* below s and hi the smallest index whose cumulative length is at least s.
C20_Bisection ==
    Searching =>
        LET s == result.arg[1]
        IN  /\ 1 <= result.lo /\ result.lo < result.hi
            /\ result.hi <= Len(arc_table)
            /\ CumLen(result.lo) < s /\ s <= CumLen(result.hi)
            /\ pc = "idle" =>
                   /\ result.status = "ok"
                   /\ result.lo + 1 = result.hi
                   /\ \A i \in 1..Len(arc_table) :
                          /\ CumLen(i) < s => i <= result.lo
                          /\ CumLen(i) >= s => i >= result.hi

\* the loop ran at least twice, s is a cumulative length of the table, and
\* the search ended inside the table
C20_Witness ==
    /\ Searching /\ pc = "idle"
    /\ Len(arc_table) > 4
    /\ result.lo > 1 /\ result.hi < Len(arc_table)
    /\ result.arg[1] = CumLen(result.hi)

\* ------------------------------------------------------------ the division
\* resolve_uniform(u) went past the two early returns of t_at_arc_length
ReachedInterpolation ==
    /\ BakedIdle /\ result.op = "resolve_uniform"
    /\ IsFinite(result.arg[1])
    /\ 0 < TargetLength /\ TargetLength < arc_length

IsIteration == pc = "bisect" /\ pc' = "bisect" /\ result' # result
\* the index the iteration assigned to lo or to hi
MidOf == IF result'.lo # result.lo THEN result'.lo ELSE result'.hi

\* C22: the loop of t_at_arc_length ends, for every table of two or more
\* entries and every s: each iteration changes exactly one of lo and hi, to
\* an index mid of the table with lo < mid < hi, so hi - lo, which is at
\* least 1, gets strictly smaller and stays at least 1; the loop therefore
\* runs fewer than hi - lo iterations.
C22_LoopTerminates ==
    [][/\ pc' = "bisect" => result'.hi - result'.lo >= 1
       /\ IsIteration =>
             /\ (result'.lo = result.lo) # (result'.hi = result.hi)
             /\ result.lo < MidOf /\ MidOf < result.hi
             /\ 1 <= MidOf /\ MidOf <= Len(arc_table)
             /\ result'.hi - result'.lo < result.hi - result.lo
             /\ result'.hi - result'.lo >= 1]_vars

\* the loop ran three iterations on a table of more than four entries and
\* the call returned
C22_Witness ==
    /\ Searching /\ pc = "idle" /\ result.status = "ok"
    /\ Len(arc_table) > 4
    /\ result.lo + 1 = result.hi
    /\ result.lo > 2 /\ result.hi < Len(arc_table) - 1

\* ------------------------------------------------------------ the linear scan
RECURSIVE FirstAtLeast(_, _, _)
\* the first index from i on whose cumulative length is at least s
FirstAtLeast(table, s, i) ==
    IF i >= Len(table) \/ table[i][2] >= s THEN i
    ELSE FirstAtLeast(table, s, i + 1)

\* the reference search: the early returns of t_at_arc_length, then a walk
\* from the start of the table to the first entry whose cumulative length is
\* at least s, and the interpolation between that entry and the one before
LinearScan(table, arc_len, s) ==
    IF s <= 0 THEN [status |-> "ok", t |-> 0, lo |-> 0, hi |-> 0]
    ELSE IF s >= arc_len
    THEN [status |-> "ok", t |-> FromInt(1), lo |-> 0, hi |-> 0]
    ELSE LET hi == FirstAtLeast(table, s, 1)
             r == Interpolate(table, s, hi - 1, hi)
         IN  [status |-> r.status, t |-> r.t, lo |-> hi - 1, hi |-> hi]

\* C23: on a non-decreasing table and for every s, t_at_arc_length ends with
\* the lo and hi that a walk from the start of the table to the first entry
\* with cumulative length >= s finds, and returns the same t.
C23_SameAsLinearScan ==
    (result.op = "t_at_arc_length" /\ pc = "idle") =>
        LET r == LinearScan(arc_table, arc_length, result.arg[1])
        IN  /\ result.status = r.status
            /\ result.t = r.t
            /\ result.lo = r.lo /\ result.hi = r.hi

\* the search ran its loop on a table with a flat segment before the
\* entry it stopped at
C23_Witness ==
    /\ Searching /\ pc = "idle" /\ result.status = "ok"
    /\ result.hi > 3
    /\ \E i \in 1..(result.lo - 1) : CumLen(i) = CumLen(i + 1)

\* ------------------------------------------------------------ bake and resolve_uniform in two threads
\* the call of the second thread has ended
ReaderDone == reader.pc = "done"
ReaderFailedNotBaked == reader.status \in {"AttributeError", "NotBaked"}
\* the table and the length the call used come from one bake
OneBake ==
    /\ reader.table # << >>
    /\ reader.length = reader.table[Len(reader.table)][2]
\* the entries the call read are entries of its table
IndexesInside ==
    reader.lo # 0 =>
        /\ 1 <= reader.lo /\ reader.lo <= Len(reader.table)
        /\ 1 <= reader.hi /\ reader.hi <= Len(reader.table)

Coord(p, axis) == IF axis = 1 THEN p.x ELSE p.y
\* the largest magnitude that axis has among the control points of obj
AxisScale(obj, axis) ==
    LET ps == IF obj.kind = "Linear" THEN << obj.P1, obj.P2 >>
              ELSE IF obj.kind = "Quadratic" THEN << obj.P1, obj.P2, obj.P3 >>
              ELSE << obj.P1, obj.P2, obj.P3, obj.P4 >>
    IN  SeqMax([i \in DOMAIN ps |-> Abs(Coord(ps[i], axis))])
\* t is a zero of the derivative on that axis, up to rounding: 16 spacings
\* of the largest coordinate of the derivative's control points
DerivativeZero(t, axis) ==
    LET d == derivative(curve)
    IN  Abs(Coord(Resolve(d, t), axis)) <= 16 * Ulp(AxisScale(d, axis)) + 1
\* v is that coordinate of an end point, or of resolve(t) for a zero t of the
\* derivative on that axis with 0 < t < 1
IsCandidate(v, axis) ==
    \/ v = Coord(Resolve(curve, 0), axis)
    \/ v = Coord(Resolve(curve, FromInt(1)), axis)
    \/ \E t \in 1..(F - 1) :
           /\ DerivativeZero(t, axis)
           /\ v = Coord(Resolve(curve, t), axis)

\* C25: the box is the component-wise min and max of a set of points that
\* holds resolve(0) and resolve(1) and otherwise only resolve(t) for zeros t
\* of the derivative with 0 < t < 1; for the Quadratic (0,0),(1,1),(2,0)
\* resolve(0.5) is (1.0, 0.5) and the box is (0.0, 0.0, 2.0, 0.5).
C25_BoxCandidates ==
    BoxReturned =>
        /\ Inside(Resolve(curve, 0), result.box, 0)
        /\ Inside(Resolve(curve, FromInt(1)), result.box, 0)
        /\ \A i \in 1..4 : IsCandidate(result.box[i], 2 - (i % 2))
        /\ curve = QuadraticBezierCurve(Point(0, 0), Point(FromInt(1), FromInt(1)),
                                        Point(FromInt(2), 0)) =>
               /\ Resolve(curve, F \div 2) = Point(FromInt(1), F \div 2)
               /\ result.box = << 0, 0, FromInt(2), F \div 2 >>

\* ------------------------------------------------------------ the dispatch of emit
\* the step starts an emit: a frame of emit is pushed
EmitStarts ==
    /\ Len(stack') = Len(stack) + 1
    /\ stack'[Len(stack')].kind = "emit"
\* the step calls a handler: emit pushes the frame of the call
EmitCalls ==
    /\ Len(stack') = Len(stack) + 1
    /\ stack'[Len(stack')].kind = "call"
\* the step ends an emit that raised nothing
EmitEnds ==
    /\ ~raising /\ stack # << >>
    /\ Top.kind = "emit"
    /\ stack' = Pop

\* C26: emit(name) calls the handlers that are registered for name when it
\* starts, each registration once and in the order of registration; what the
\* handlers register or remove while the dispatch runs shows in later emits
\* only: an emit that starts later sees the list as it then is.
C26_EmitDispatch ==
    [][/\ EmitStarts =>
              LET f == stack'[Len(stack')]
              IN  /\ f.started = handlers[f.name]
                  /\ f.called = << >>
       /\ EmitCalls =>
              /\ Top.kind = "emit"
              /\ Len(Top.called) < Len(Top.started)
              /\ stack'[Len(stack')].id = Top.started[Len(Top.called) + 1].id
              /\ stack'[Len(stack)].called =
                     SubSeq(Top.started, 1, Len(Top.called) + 1)
              /\ stack'[Len(stack)].started = Top.started
       /\ EmitEnds => Top.called = Top.started]_vars

\* an emit has called two handlers and is about to return, and the list of
\* its event is no longer the one it started with
C26_Witness ==
    /\ ~raising /\ stack # << >>
    /\ Top.kind = "emit" /\ Top.pending = << >>
    /\ Len(Top.called) = 2
    /\ handlers[Top.name] # Top.started

\* ------------------------------------------------------------ off
\* the registrations of fn in the list of name, made with on or with once
RegistrationsOf(h, name, fn) == {i \in 1..Len(h[name]) : h[name][i].fn = fn}

\* C27: off(name, fn) removes the handler fn from the event name, whether on
\* or once registered it, so that the next emit(name) does not call fn;
\* off(name) removes every handler of name; neither changes the list of
\* another event name.  Stated of every call that user code can make in the
\* current state, for an fn that is registered once.
C27_OffRemoves ==
    UserCode =>
        \A name \in EventNames :
            /\ \A fn \in Fns :
                   /\ Cardinality(RegistrationsOf(handlers, name, fn)) = 1 =>
                          RegistrationsOf(off(handlers, name, fn), name, fn) = {}
                   /\ \A other \in EventNames \ {name} :
                          off(handlers, name, fn)[other] = handlers[other]
            /\ off_all(handlers, name)[name] = << >>
            /\ \A other \in EventNames \ {name} :
                   off_all(handlers, name)[other] = handlers[other]

\* ------------------------------------------------------------ the buffer of the FileLogger
\* between calls: buffer_size is at least 1 and the buffer is not full
BufferBelowSize == buffer_size >= 1 /\ Len(buffer) < buffer_size

UniformT(u) == t_at_arc_length(arc_table, arc_length, FMul(u, arc_length))
\* every u from 0 to 1, and one value on each side of [0, 1]
AllUnitParams == 0..F
Outside == {FDiv(FromInt(-1), FromInt(2)), FDiv(FromInt(3), FromInt(2))}

\* C29: on a baked curve the t that resolve_uniform chooses is monotone in
\* u, t(u1) <= t(u2) whenever u1 <= u2, and lies in [0, 1], flat segments of
\* the table and u outside [0, 1] included.
C29_MonotoneInU ==
    BakedIdle =>
        LET T == [u \in AllUnitParams \cup Outside |-> UniformT(u)]
        IN  /\ \A u \in DOMAIN T :
                   /\ T[u].status = "ok"
                   /\ 0 <= T[u].t /\ T[u].t <= FromInt(1)
            /\ \A u \in 0..(F - 1) : T[u].t <= T[u + 1].t
            /\ \A u \in AllUnitParams :
                   /\ T[FDiv(FromInt(-1), FromInt(2))].t <= T[u].t
                   /\ T[u].t <= T[FDiv(FromInt(3), FromInt(2))].t

\* ------------------------------------------------------------ bake with no steps
\* the last bake was called with steps <= 0 and has returned
BakedWithoutSteps == pc = "idle" /\ has_baked /\ baked /\ steps <= 0

\* C30: bake(steps) with steps <= 0 raises nothing and leaves the curve
\* baked with the table [(0, 0)] and arc_length 0; resolve_uniform(u) then
\* returns resolve(0) for every u, u = 1 included.
C30_BakeWithoutSteps ==
    BakedWithoutSteps =>
        /\ arc_table = << << 0, 0 >> >>
        /\ arc_length = 0
        /\ result.op = "bake" => result.status = "ok"
        /\ result.op = "resolve_uniform" =>
               /\ result.status = "ok"
               /\ result.point = Resolve(curve, 0)

====
